---- MODULE Spec2Model ----
(***************************************************************************)
(* Model of src/src/key.h (Kobocoin): the CKey secret-key container and    *)
(* the CECKey wrapper around OpenSSL's EC_KEY (Sign, Verify, SignCompact,  *)
(* Recover, TweakSecret, TweakPublic).                                     *)
(*                                                                         *)
(* The group arithmetic is computed, not assumed.  secp256k1 itself is far *)
(* beyond explicit-state checking, so the curve selected by NID_secp256k1  *)
(* is replaced by a curve of the same shape, y^2 = x^3 + 7 over a prime    *)
(* field, of prime order Order < FieldP, with points whose x coordinate is *)
(* >= Order (so all four recovery ids occur).  Byte buffers keep their     *)
(* real sizes (32 and 64 bytes, base 256).                                 *)
(***************************************************************************)
EXTENDS Integers, Sequences, FiniteSets, TLC

(***************************************************************************)
(* Curve parameters (the group behind NID_secp256k1, scaled down).         *)
(***************************************************************************)
FieldP == 349
CurveB == 7
Order == 313
G == <<288, 15>>
Infinity == <<>>

(***************************************************************************)
(* Bounds of the model.                                                    *)
(***************************************************************************)
MaxSecret == 1
MaxDigest == 1
MaxNonce == 2
MaxTweak == 1
MaxChain == 1
NumKeys == 2
MaxRange == 16

\* valid secret scalars, digests and signing nonces the model draws from
Secrets == (1..MaxSecret) \cup {Order - 1}
Digests == (1..MaxDigest) \cup {Order + 2}
Nonces == (1..MaxNonce) \cup ((Order - MaxNonce)..(Order - 1))

(***************************************************************************)
(* Field and group arithmetic (what the BN_* / EC_POINT_* calls compute).  *)
(***************************************************************************)
RECURSIVE ModPow(_, _, _)
ModPow(a, e, m) ==
    IF e = 0 THEN 1 % m
    ELSE LET h == ModPow(a, e \div 2, m)
             q == (h * h) % m
         IN IF e % 2 = 1 THEN (q * (a % m)) % m ELSE q

\* BN_mod_inverse for the two prime moduli, tabulated once
InvField == [a \in 0..(FieldP - 1) |-> ModPow(a, FieldP - 2, FieldP)]
InvOrder == [a \in 0..(Order - 1) |-> ModPow(a, Order - 2, Order)]
ModInv(a, m) ==
    IF m = FieldP THEN InvField[a % FieldP]
    ELSE IF m = Order THEN InvOrder[a % Order]
    ELSE ModPow(a % m, m - 2, m)

\* EC_POINT_is_on_curve
IsOnCurve(P) ==
    \/ P = Infinity
    \/ /\ Len(P) = 2
       /\ P[1] \in 0..(FieldP - 1) /\ P[2] \in 0..(FieldP - 1)
       /\ (P[2] * P[2]) % FieldP = (P[1] * P[1] * P[1] + CurveB) % FieldP

\* EC_POINT_add / EC_POINT_dbl
PointAdd(P, Q) ==
    IF P = Infinity THEN Q
    ELSE IF Q = Infinity THEN P
    ELSE IF P[1] = Q[1] /\ (P[2] + Q[2]) % FieldP = 0 THEN Infinity
    ELSE LET lam == IF P = Q
                    THEN (3 * P[1] * P[1] * ModInv(2 * P[2], FieldP)) % FieldP
                    ELSE ((Q[2] - P[2] + FieldP) * ModInv(Q[1] - P[1] + FieldP, FieldP)) % FieldP
             x3 == (lam * lam + 2 * FieldP - P[1] - Q[1]) % FieldP
             y3 == (lam * (P[1] - x3 + FieldP) + FieldP - P[2]) % FieldP
         IN <<x3, y3>>

RECURSIVE PointMul(_, _)
PointMul(k, P) ==
    IF k = 0 \/ P = Infinity THEN Infinity
    ELSE LET h == PointMul(k \div 2, P)
             d == PointAdd(h, h)
         IN IF k % 2 = 1 THEN PointAdd(d, P) ELSE d

\* the multiples of the generator, tabulated once
GMul == [k \in 0..(Order - 1) |-> PointMul(k, G)]

\* k*G (EC_POINT_mul with the generator scalar only)
BaseMul(k) == IF k \in 0..(Order - 1) THEN GMul[k] ELSE PointMul(k, G)

(***************************************************************************)
(* Byte strings and BIGNUM conversions.  A BIGNUM is its integer value; a  *)
(* buffer is a sequence of bytes, index 1 being offset 0.                  *)
(***************************************************************************)
Zeros(len) == [i \in 1..len |-> 0]

\* BN_bin2bn(s, len, ret): big-endian bytes to integer
RECURSIVE BN_bin2bn(_)
BN_bin2bn(s) ==
    IF s = <<>> THEN 0
    ELSE BN_bin2bn(SubSeq(s, 1, Len(s) - 1)) * 256 + s[Len(s)]

RECURSIVE BN_num_bits(_)
BN_num_bits(v) == IF v = 0 THEN 0 ELSE 1 + BN_num_bits(v \div 2)

BN_num_bytes(v) == (BN_num_bits(v) + 7) \div 8

\* BN_bn2bin(a, to): the minimal big-endian encoding (no bytes for zero)
RECURSIVE BN_bn2bin(_)
BN_bn2bin(v) == IF v = 0 THEN <<>> ELSE Append(BN_bn2bin(v \div 256), v % 256)

\* writing the bytes b into buf starting at offset off (as BN_bn2bin(a, &buf[off]))
WriteAt(buf, off, b) ==
    [i \in 1..Len(buf) |-> IF i > off /\ i <= off + Len(b) THEN b[i - off] ELSE buf[i]]

\* a value as a 32-byte big-endian array
Bytes32(v) == WriteAt(Zeros(32), 32 - BN_num_bytes(v), BN_bn2bin(v))

(***************************************************************************)
(* ECDSA as OpenSSL computes it.  hash is the integer ECDSA takes from the *)
(* digest (its leftmost bits, as many as the order has).                   *)
(***************************************************************************)
\* the signature ECDSA_do_sign computes with nonce k
EcdsaR(k) == BaseMul(k)[1] % Order
EcdsaS(hash, priv, k) == (ModInv(k, Order) * ((hash + EcdsaR(k) * priv) % Order)) % Order

\* ECDSA_do_sign retries until r and s are both nonzero
NonceOk(hash, priv, k) == EcdsaR(k) # 0 /\ EcdsaS(hash, priv, k) # 0

ECDSA_do_sign(hash, priv, k) == [r |-> EcdsaR(k), s |-> EcdsaS(hash, priv, k)]

\* ECDSA_do_verify
ECDSA_do_verify(hash, sig, pub) ==
    /\ sig.r \in 1..(Order - 1)
    /\ sig.s \in 1..(Order - 1)
    /\ pub # Infinity
    /\ LET w == ModInv(sig.s, Order)
           u1 == ((hash % Order) * w) % Order
           u2 == (sig.r * w) % Order
           X == PointAdd(BaseMul(u1), PointMul(u2, pub))
       IN X # Infinity /\ X[1] % Order = sig.r

(***************************************************************************)
(* DER encoding of ECDSA_SIG (i2d_ECDSA_SIG / d2i_ECDSA_SIG).              *)
(***************************************************************************)
\* contents of an ASN.1 INTEGER
DerIntBody(v) ==
    IF v = 0 THEN <<0>>
    ELSE LET b == BN_bn2bin(v) IN IF b[1] >= 128 THEN <<0>> \o b ELSE b

DerInt(v) == <<2, Len(DerIntBody(v))>> \o DerIntBody(v)

i2d_ECDSA_SIG(sig) ==
    <<48, Len(DerInt(sig.r)) + Len(DerInt(sig.s))>> \o DerInt(sig.r) \o DerInt(sig.s)

BadSig == [r |-> -1, s |-> -1]

\* d2i_ECDSA_SIG; BadSig when the bytes do not parse
d2i_ECDSA_SIG(b) ==
    IF Len(b) < 8 \/ b[1] # 48 \/ b[2] # Len(b) - 2 \/ b[3] # 2 THEN BadSig
    ELSE LET lr == b[4] IN
         IF lr < 1 \/ 4 + lr + 2 > Len(b) \/ b[5 + lr] # 2 THEN BadSig
         ELSE LET ls == b[6 + lr] IN
              IF ls < 1 \/ 6 + lr + ls # Len(b) THEN BadSig
              ELSE [r |-> BN_bin2bn(SubSeq(b, 5, 4 + lr)),
                    s |-> BN_bin2bn(SubSeq(b, 7 + lr, 6 + lr + ls))]

(***************************************************************************)
(* Public-key encodings (i2o_ECPublicKey / o2i_ECPublicKey).               *)
(***************************************************************************)
NoKey == -1
NullPoint == <<-1>>

\* the y coordinates of the curve points with x coordinate xc, tabulated once
CurveYs ==
    [xc \in 0..(FieldP - 1) |->
        {y \in 0..(FieldP - 1) : (y * y) % FieldP = (xc * xc * xc + CurveB) % FieldP}]

\* the point with x coordinate xc whose y has parity ybit, NullPoint if none
\* (EC_POINT_set_compressed_coordinates_GFp)
PointFromX(xc, ybit) ==
    IF xc \in 0..(FieldP - 1) /\ \E y \in CurveYs[xc] : y % 2 = ybit
    THEN <<xc, CHOOSE y \in CurveYs[xc] : y % 2 = ybit>>
    ELSE NullPoint

i2o_ECPublicKey(P, fCompressed) ==
    IF P = NullPoint THEN <<>>
    ELSE IF P = Infinity THEN <<0>>
    ELSE IF fCompressed THEN <<2 + (P[2] % 2)>> \o Bytes32(P[1])
    ELSE <<4>> \o Bytes32(P[1]) \o Bytes32(P[2])

o2i_ECPublicKey(b) ==
    IF Len(b) = 33 /\ b[1] \in {2, 3} THEN PointFromX(BN_bin2bn(SubSeq(b, 2, 33)), b[1] - 2)
    ELSE IF Len(b) = 65 /\ b[1] = 4
         THEN LET P == <<BN_bin2bn(SubSeq(b, 2, 33)), BN_bin2bn(SubSeq(b, 34, 65))>>
              IN IF IsOnCurve(P) THEN P ELSE NullPoint
    ELSE NullPoint

\* EC_KEY_regenerate_key: the public key of a private scalar
EC_KEY_regenerate_key(priv) == BaseMul(priv)

\* EC_KEY_check_key
EC_KEY_check_key(key) ==
    /\ key.pub # NullPoint /\ key.pub # Infinity /\ IsOnCurve(key.pub)
    /\ PointMul(Order, key.pub) = Infinity
    /\ key.priv # NoKey => (key.priv \in 1..(Order - 1) /\ BaseMul(key.priv) = key.pub)

(***************************************************************************)
(* ECDSA key recovery, SEC1 4.1.6.  ret = 1 with the recovered point, or a *)
(* ret <= 0 and no point.                                                  *)
(***************************************************************************)
RecFail(code) == [ret |-> code, pub |-> NullPoint]

ECDSA_SIG_recover_key_GFp(sig, hash, recid, check) ==
    LET xc == sig.r + (recid \div 2) * Order IN
    IF xc >= FieldP THEN RecFail(-1)
    ELSE LET R == PointFromX(xc, recid % 2) IN
         IF R = NullPoint THEN RecFail(0)
         ELSE IF check # 0 /\ PointMul(Order, R) # Infinity THEN RecFail(0)
         ELSE IF sig.r % Order = 0 THEN RecFail(-1)
         ELSE LET rr == ModInv(sig.r, Order)
                  sor == ((sig.s % Order) * rr) % Order
                  eor == (((Order - (hash % Order)) % Order) * rr) % Order
                  Q == PointAdd(BaseMul(eor), PointMul(sor, R))
              IN IF Q = Infinity THEN RecFail(0) ELSE [ret |-> 1, pub |-> Q]

(***************************************************************************)
(* The bodies of the CECKey members, as functions of their inputs.         *)
(***************************************************************************)
halforder == Order \div 2

\* variants of the low-S step: left out, and applied to r instead of s
EnforceLowS_Skip(sig) == sig

EnforceLowS_NegR(sig) ==
    IF sig.s > halforder THEN [r |-> Order - sig.r, s |-> sig.s] ELSE sig

\* CECKey::Sign, the low-S step: s above order/2 is replaced by order - s
EnforceLowS(sig) ==
    IF sig.s > halforder THEN [r |-> sig.r, s |-> Order - sig.s] ELSE sig

\* CECKey::GetPubKey followed by CPubKey::Set
GetPubKey(key, fCompressed) == i2o_ECPublicKey(key.pub, fCompressed)

\* CECKey::SignCompact, the body of the search loop: recovery with check = 1
\* succeeds for id i and gives the signer's compressed public key
RecIdMatches(sig, hash, key, i) ==
    LET keyRecI == ECDSA_SIG_recover_key_GFp(sig, hash, i, 1)
    IN /\ keyRecI.ret = 1
       /\ GetPubKey(keyRecI, TRUE) = GetPubKey(key, TRUE)

\* variant of the search: the recovered key is not compared with the
\* signer's, the first id whose recovery succeeds is taken
FindRecId_AnyKey(sig, hash, key) ==
    IF ECDSA_SIG_recover_key_GFp(sig, hash, 0, 1).ret = 1 THEN 0
    ELSE IF ECDSA_SIG_recover_key_GFp(sig, hash, 1, 1).ret = 1 THEN 1
    ELSE IF ECDSA_SIG_recover_key_GFp(sig, hash, 2, 1).ret = 1 THEN 2
    ELSE IF ECDSA_SIG_recover_key_GFp(sig, hash, 3, 1).ret = 1 THEN 3
    ELSE -1

\* the id the loop breaks at, -1 when it runs to the end (fOk stays false)
FindRecId(sig, hash, key) ==
    IF RecIdMatches(sig, hash, key, 0) THEN 0
    ELSE IF RecIdMatches(sig, hash, key, 1) THEN 1
    ELSE IF RecIdMatches(sig, hash, key, 2) THEN 2
    ELSE IF RecIdMatches(sig, hash, key, 3) THEN 3
    ELSE -1

\* variant of the packing: r and s written from the start of their halves
PackCompact_Left(sig) ==
    WriteAt(WriteAt(Zeros(64), 0, BN_bn2bin(sig.r)), 32, BN_bn2bin(sig.s))

\* CECKey::SignCompact: memset(p64, 0, 64), then r and s right-aligned in
\* bytes 0..31 and 32..63
PackCompact(sig) ==
    LET nBitsR == BN_num_bits(sig.r)
        nBitsS == BN_num_bits(sig.s)
        p0 == Zeros(64)
        p1 == WriteAt(p0, 32 - ((nBitsR + 7) \div 8), BN_bn2bin(sig.r))
    IN WriteAt(p1, 64 - ((nBitsS + 7) \div 8), BN_bn2bin(sig.s))

\* the offsets from p64 that SignCompact writes to: the memset and the two
\* BN_bn2bin calls
CompactWrites(sig) ==
    LET nBitsR == BN_num_bits(sig.r)
        nBitsS == BN_num_bits(sig.s)
        offR == 32 - ((nBitsR + 7) \div 8)
        offS == 64 - ((nBitsS + 7) \div 8)
    IN (0..63) \cup (offR..(offR + BN_num_bytes(sig.r) - 1))
               \cup (offS..(offS + BN_num_bytes(sig.s) - 1))

\* CECKey::Recover, the range test on rec
RecoverRangeOk(recIn) == ~(recIn < 0 \/ recIn >= 3)

\* CECKey::Recover, OpenSSL < 1.1: r and s read from the two halves of p64
ReadCompact(buf) ==
    [r |-> BN_bin2bn(SubSeq(buf, 1, 32)), s |-> BN_bin2bn(SubSeq(buf, 33, 64))]

\* variant of TweakSecret: the tweak is compared with > instead of >=
TweakSecret_Gt(vchSecretIn, vchTweak) ==
    LET bnTweak == BN_bin2bn(vchTweak)
        bnSecret == (BN_bin2bn(vchSecretIn) + bnTweak) % Order
        nBits == BN_num_bits(bnSecret)
    IN [ret |-> ~(bnTweak > Order) /\ ~(bnSecret = 0),
        vchSecretOut |-> WriteAt(Zeros(32), 32 - ((nBits + 7) \div 8), BN_bn2bin(bnSecret))]

\* CECKey::TweakSecret
TweakSecret(vchSecretIn, vchTweak) ==
    LET bnTweak == BN_bin2bn(vchTweak)
        bnSecret == (BN_bin2bn(vchSecretIn) + bnTweak) % Order
        nBits == BN_num_bits(bnSecret)
    IN [ret |-> ~(bnTweak >= Order) /\ ~(bnSecret = 0),
        vchSecretOut |-> WriteAt(Zeros(32), 32 - ((nBits + 7) \div 8), BN_bn2bin(bnSecret))]

\* variant of TweakPublic: the scalars of EC_POINT_mul exchanged
\* (1*G + bnTweak*point)
TweakPublic_Swapped(pub, vchTweak) ==
    LET bnTweak == BN_bin2bn(vchTweak)
        point == PointAdd(PointMul(1, G), PointMul(bnTweak, pub))
    IN [ret |-> ~(bnTweak >= Order) /\ ~(point = Infinity),
        pub |-> point]

\* variant of TweakPublic: the tweak is compared with > instead of >=
TweakPublic_Gt(pub, vchTweak) ==
    LET bnTweak == BN_bin2bn(vchTweak)
        point == PointAdd(BaseMul(bnTweak), PointMul(1, pub))
    IN [ret |-> ~(bnTweak > Order) /\ ~(point = Infinity),
        pub |-> point]

\* variant of TweakPublic: the point is stored only when ret is true
TweakPublic_KeepOnFail(pub, vchTweak) ==
    LET bnTweak == BN_bin2bn(vchTweak)
        point == PointAdd(BaseMul(bnTweak), PointMul(1, pub))
        ret == ~(bnTweak >= Order) /\ ~(point = Infinity)
    IN [ret |-> ret, pub |-> IF ret THEN point ELSE pub]

\* CECKey::TweakPublic: EC_POINT_mul(group, point, bnTweak, point, bnOne)
\* computes bnTweak*G + 1*point, which is stored whatever ret is
TweakPublic(pub, vchTweak) ==
    LET bnTweak == BN_bin2bn(vchTweak)
        point == PointAdd(BaseMul(bnTweak), PointMul(1, pub))
    IN [ret |-> ~(bnTweak >= Order) /\ ~(point = Infinity),
        pub |-> point]

(***************************************************************************)
(* State.                                                                  *)
(*   opensslNew  the build: OPENSSL_VERSION_NUMBER >= 0x10100000L          *)
(*   pkey        the signing CECKey: [priv, pub]                           *)
(*   keyRec      a second CECKey, used to verify and to recover            *)
(* As in every caller, a CECKey is constructed, given its key once, used   *)
(* and destroyed; a signing call is not made while a verifying CECKey is   *)
(* alive.                                                                  *)
(*   hash, vchSig, p64, rec   the digest and the caller's output buffers   *)
(*   rawsig      what ECDSA_do_sign returned in the last signing call      *)
(*   op, ret, recIn, reached  the last call, its result, the rec argument  *)
(*               of Recover, whether Recover got to the recovery routine   *)
(*   sigIn       the signature Recover handed to the recovery routine      *)
(*   aborted     the process was aborted (failed assert, null dereference) *)
(*   tsCall      the last CECKey::TweakSecret call: arguments and results  *)
(*   twKey       the CECKey TweakPublic is called on                       *)
(*   tpCall      the last TweakPublic call on twKey: the public key before *)
(*               it, the tweak and the result                              *)
(*   nTweaks     TweakPublic calls on twKey since its SetPubKey            *)
(*   keys        the CKey objects                                          *)
(*   keyOp       the last CKey operation, its arguments (from: the other   *)
(*               key of a copy, a Set from a key or a comparison) and, for *)
(*               a comparison, its result in flag                          *)
(*   rnd         the last CBigNum::randBignum call: its range, what it     *)
(*               returned, whether it threw bignum_error                   *)
(***************************************************************************)
VARIABLES opensslNew, pkey, keyRec, hash, vchSig, p64, rec, rawsig,
          op, ret, recIn, reached, sigIn, aborted,
          tsCall, twKey, tpCall, nTweaks,
          keys, keyOp,
          rnd

signVars == <<opensslNew, pkey, keyRec, hash, vchSig, p64, rec, rawsig,
              op, ret, recIn, reached, sigIn, aborted>>

tweakVars == <<tsCall, twKey, tpCall, nTweaks>>

keyVars == <<keys, keyOp>>

bigVars == <<rnd>>

vars == <<signVars, tweakVars, keyVars, bigVars>>

NewKey == [priv |-> NoKey, pub |-> NullPoint]

\* ECDSA_SIG_new(): r and s are not set
NullSig == BadSig
RecIds == -1..4

\* serialized private keys (d2i_ECPrivateKey input): a secret with the public
\* key stored next to it, which a damaged or forged file need not match
PrivKeys == {[priv |-> d, pub |-> BaseMul(d + o)] : d \in Secrets, o \in {0, 2}}

SignInit ==
    /\ opensslNew \in BOOLEAN
    /\ pkey = NewKey
    /\ keyRec = NewKey
    /\ hash = 0
    /\ vchSig = <<>>
    /\ p64 = Zeros(64)
    /\ rec = -1
    /\ rawsig = BadSig
    /\ op = "new"
    /\ ret = FALSE
    /\ recIn = -1
    /\ reached = FALSE
    /\ sigIn = NullSig
    /\ aborted = FALSE

\* CECKey::SetSecretBytes on pkey
SetSecretBytes(vch) ==
    /\ ~aborted
    /\ pkey = NewKey
    /\ pkey' = [priv |-> BN_bin2bn(vch), pub |-> EC_KEY_regenerate_key(BN_bin2bn(vch))]
    /\ op' = "SetSecretBytes"
    /\ ret' = TRUE
    /\ UNCHANGED <<opensslNew, keyRec, hash, vchSig, p64, rec, rawsig, recIn, reached, sigIn, aborted>>
    /\ UNCHANGED <<tweakVars, keyVars, bigVars>>

\* CECKey::SetPrivKey on pkey: d2i_ECPrivateKey stores what it parsed before
\* EC_KEY_check_key is asked
SetPrivKey(privkey, fSkipCheck) ==
    /\ ~aborted
    /\ pkey = NewKey
    /\ pkey' = privkey
    /\ op' = "SetPrivKey"
    /\ ret' = (fSkipCheck \/ EC_KEY_check_key(privkey))
    /\ UNCHANGED <<opensslNew, keyRec, hash, vchSig, p64, rec, rawsig, recIn, reached, sigIn, aborted>>
    /\ UNCHANGED <<tweakVars, keyVars, bigVars>>

\* ~CECKey and CECKey(): the verifying call ends and the next one constructs
\* its CECKey
NewKeyRec ==
    /\ ~aborted
    /\ keyRec # NewKey
    /\ keyRec' = NewKey
    /\ op' = "new"
    /\ ret' = FALSE
    /\ recIn' = -1
    /\ reached' = FALSE
    /\ sigIn' = NullSig
    /\ UNCHANGED <<opensslNew, pkey, hash, vchSig, p64, rec, rawsig, aborted>>
    /\ UNCHANGED <<tweakVars, keyVars, bigVars>>

\* CECKey::SetPubKey on keyRec, given the encoding GetPubKey produced for pkey
SetPubKey(fCompressed) ==
    /\ ~aborted
    /\ pkey.pub # NullPoint
    /\ LET point == o2i_ECPublicKey(GetPubKey(pkey, fCompressed))
       IN /\ keyRec' = IF point # NullPoint THEN [keyRec EXCEPT !.pub = point] ELSE keyRec
          /\ ret' = (point # NullPoint)
    /\ op' = "SetPubKey"
    /\ UNCHANGED <<opensslNew, pkey, hash, vchSig, p64, rec, rawsig, recIn, reached, sigIn, aborted>>
    /\ UNCHANGED <<tweakVars, keyVars, bigVars>>

\* variant of the failing Sign: the output vector is not cleared first
SignFail_NoClear ==
    /\ ~aborted
    /\ keyRec = NewKey
    /\ \E h \in Digests :
        /\ hash' = h
        /\ rawsig' = BadSig
        /\ ret' = FALSE
    /\ op' = "Sign"
    /\ p64' = Zeros(64)
    /\ rec' = -1
    /\ UNCHANGED <<opensslNew, pkey, keyRec, vchSig, recIn, reached, sigIn, aborted>>
    /\ UNCHANGED <<tweakVars, keyVars, bigVars>>

\* CECKey::Sign on pkey.  ECDSA_do_sign returns NULL when the key has no
\* private part or when the provider fails; otherwise it signs with a nonce.
SignFail ==
    /\ ~aborted
    /\ keyRec = NewKey
    /\ \E h \in Digests :
        /\ hash' = h
        /\ vchSig' = <<>>
        /\ rawsig' = BadSig
        /\ ret' = FALSE
    /\ op' = "Sign"
    /\ p64' = Zeros(64)
    /\ rec' = -1
    /\ UNCHANGED <<opensslNew, pkey, keyRec, recIn, reached, sigIn, aborted>>
    /\ UNCHANGED <<tweakVars, keyVars, bigVars>>

Sign ==
    /\ ~aborted
    /\ keyRec = NewKey
    /\ pkey.priv # NoKey
    /\ \E h \in Digests, k \in Nonces :
        /\ NonceOk(h, pkey.priv, k)
        /\ \E sig \in {ECDSA_do_sign(h, pkey.priv, k)} :
              /\ rawsig' = sig
              /\ vchSig' = i2d_ECDSA_SIG(EnforceLowS(sig))
        /\ hash' = h
        /\ ret' = TRUE
    /\ op' = "Sign"
    /\ p64' = Zeros(64)
    /\ rec' = -1
    /\ UNCHANGED <<opensslNew, pkey, keyRec, recIn, reached, sigIn, aborted>>
    /\ UNCHANGED <<tweakVars, keyVars, bigVars>>

\* CECKey::Verify on keyRec, of the digest and signature at hand (a
\* non-empty vector: the code takes &vchSig[0])
Verify ==
    /\ ~aborted
    /\ keyRec.pub # NullPoint
    /\ vchSig # <<>>
    /\ LET sig == d2i_ECDSA_SIG(vchSig)
       IN ret' = (sig # BadSig /\ ECDSA_do_verify(hash, sig, keyRec.pub))
    /\ op' = "Verify"
    /\ UNCHANGED <<opensslNew, pkey, keyRec, hash, vchSig, p64, rec, rawsig, recIn, reached, sigIn, aborted>>
    /\ UNCHANGED <<tweakVars, keyVars, bigVars>>

\* CECKey::SignCompact on pkey
SignCompactFail ==
    /\ ~aborted
    /\ keyRec = NewKey
    /\ \E h \in Digests :
        /\ hash' = h
        /\ rawsig' = BadSig
        /\ ret' = FALSE
    /\ op' = "SignCompact"
    /\ vchSig' = <<>>
    /\ p64' = Zeros(64)
    /\ rec' = -1
    /\ UNCHANGED <<opensslNew, pkey, keyRec, recIn, reached, sigIn, aborted>>
    /\ UNCHANGED <<tweakVars, keyVars, bigVars>>

SignCompact ==
    /\ ~aborted
    /\ keyRec = NewKey
    /\ pkey.priv # NoKey
    /\ \E h \in Digests, k \in Nonces :
        /\ NonceOk(h, pkey.priv, k)
        /\ \E sig \in {ECDSA_do_sign(h, pkey.priv, k)} :
           \E i \in {FindRecId(sig, h, pkey)} :
           LET nBitsR == BN_num_bits(sig.r)
               nBitsS == BN_num_bits(sig.s)
               fOk == (i # -1)
           IN /\ rawsig' = sig
              /\ IF nBitsR <= 256 /\ nBitsS <= 256
                 THEN /\ rec' = i
                      /\ aborted' = ~fOk          \* assert(fOk)
                      /\ p64' = IF fOk THEN PackCompact(sig) ELSE Zeros(64)
                      /\ ret' = fOk
                 ELSE /\ rec' = -1
                      /\ aborted' = FALSE
                      /\ p64' = Zeros(64)
                      /\ ret' = FALSE
        /\ hash' = h
    /\ op' = "SignCompact"
    /\ vchSig' = <<>>
    /\ UNCHANGED <<opensslNew, pkey, keyRec, recIn, reached, sigIn>>
    /\ UNCHANGED <<tweakVars, keyVars, bigVars>>

\* CECKey::Recover on keyRec.
\* With OpenSSL >= 1.1 the code drops the BIGNUMs BN_bin2bn allocates (pr and
\* ps stay NULL), ECDSA_SIG_set0 refuses them, and the recovery routine is
\* handed a signature whose r and s are NULL: it fails or the process dies.
RecoverCall(h, buf, rc) ==
    /\ ~aborted
    /\ recIn' = rc
    /\ IF ~RecoverRangeOk(rc)
       THEN /\ ret' = FALSE
            /\ reached' = FALSE
            /\ sigIn' = NullSig
            /\ UNCHANGED <<keyRec, aborted>>
       ELSE /\ reached' = TRUE
            /\ IF opensslNew
               THEN /\ sigIn' = NullSig
                    /\ ret' = FALSE
                    /\ aborted' \in BOOLEAN
                    /\ UNCHANGED keyRec
               ELSE \E res \in {ECDSA_SIG_recover_key_GFp(ReadCompact(buf), h, rc, 0)} :
                       /\ sigIn' = ReadCompact(buf)
                       /\ ret' = (res.ret = 1)
                       /\ keyRec' = IF res.ret = 1 THEN [keyRec EXCEPT !.pub = res.pub]
                                    ELSE keyRec
                       /\ UNCHANGED aborted
    /\ op' = "Recover"
    /\ UNCHANGED <<opensslNew, pkey>>
    /\ UNCHANGED <<tweakVars, keyVars, bigVars>>

\* Recover of the digest and compact signature at hand
Recover ==
    /\ \E rc \in RecIds : RecoverCall(hash, p64, rc)
    /\ UNCHANGED <<hash, vchSig, p64, rec, rawsig>>

\* compact signatures as they arrive from outside: r is 0, the x coordinate
\* of a point, a value for which only r + order is one, or a value between
\* the order and the field prime; s is 0, 1 or the order
WireR == {0, 2, 3, Order + 3}
WireS == {0, 1, Order}
WireSigs == {Bytes32(r) \o Bytes32(s) : r \in WireR, s \in WireS}

\* Recover on a newly constructed CECKey, of a digest and a compact
\* signature received from outside
RecoverWire ==
    /\ keyRec = NewKey
    /\ \E h \in Digests, buf \in WireSigs, rc \in RecIds :
        /\ RecoverCall(h, buf, rc)
        /\ hash' = h
        /\ p64' = buf
    /\ vchSig' = <<>>
    /\ rec' = -1
    /\ rawsig' = BadSig

SignNext ==
    \/ \E d \in Secrets : SetSecretBytes(Bytes32(d))
    \/ \E privkey \in PrivKeys, fSkipCheck \in BOOLEAN : SetPrivKey(privkey, fSkipCheck)
    \/ NewKeyRec
    \/ \E fCompressed \in BOOLEAN : SetPubKey(fCompressed)
    \/ SignFail
    \/ Sign
    \/ Verify
    \/ SignCompactFail
    \/ SignCompact
    \/ Recover

\* the receiving side: recovery from signatures received, nothing signed
RecoverNext ==
    \/ RecoverWire
    \/ Recover
    \/ NewKeyRec

(***************************************************************************)
(* Key tweaking: CECKey::TweakSecret (static) and CECKey::TweakPublic.     *)
(***************************************************************************)
\* scalars around 0 and around the order, as 32-byte arrays
EdgeVals == (0..MaxTweak) \cup ((Order - MaxTweak)..(Order + MaxTweak))
EdgeBytes == {Bytes32(v) : v \in EdgeVals}

NoCall == [done |-> FALSE]

TweakInit ==
    /\ tsCall = NoCall
    /\ twKey = NewKey
    /\ tpCall = NoCall
    /\ nTweaks = 0

TweakSecretCall(vchSecretIn, vchTweak) ==
    /\ \E res \in {TweakSecret(vchSecretIn, vchTweak)} :
        tsCall' = [done |-> TRUE, vchSecretIn |-> vchSecretIn, vchTweak |-> vchTweak,
                   vchSecretOut |-> res.vchSecretOut, ret |-> res.ret]
    /\ UNCHANGED <<twKey, tpCall, nTweaks>>
    /\ UNCHANGED <<signVars, keyVars, bigVars>>

\* CECKey::SetPubKey on twKey, given the public key of the secret d as
\* CECKey::SetSecretBytes and CECKey::GetPubKey produce it
TweakSetPubKey(d, fCompressed) ==
    /\ \E point \in {o2i_ECPublicKey(i2o_ECPublicKey(EC_KEY_regenerate_key(d), fCompressed))} :
        twKey' = IF point # NullPoint THEN [twKey EXCEPT !.pub = point] ELSE twKey
    /\ tpCall' = NoCall
    /\ nTweaks' = 0
    /\ UNCHANGED tsCall
    /\ UNCHANGED <<signVars, keyVars, bigVars>>

TweakPublicCall(vchTweak) ==
    /\ twKey.pub # NullPoint
    /\ nTweaks < MaxChain
    /\ \E res \in {TweakPublic(twKey.pub, vchTweak)} :
        /\ twKey' = [twKey EXCEPT !.pub = res.pub]
        /\ tpCall' = [done |-> TRUE, pubIn |-> twKey.pub, vchTweak |-> vchTweak, ret |-> res.ret]
    /\ nTweaks' = nTweaks + 1
    /\ UNCHANGED tsCall
    /\ UNCHANGED <<signVars, keyVars, bigVars>>

TweakNext ==
    \/ \E vchSecretIn \in EdgeBytes, vchTweak \in EdgeBytes : TweakSecretCall(vchSecretIn, vchTweak)
    \/ \E d \in Secrets, fCompressed \in BOOLEAN : TweakSetPubKey(d, fCompressed)
    \/ \E vchTweak \in EdgeBytes : TweakPublicCall(vchTweak)

(***************************************************************************)
(* CKey objects.                                                           *)
(***************************************************************************)
CKeys == 1..NumKeys

\* CKey::Check: the 32 bytes are a scalar in [1, order - 1]
Check(vch) == BN_bin2bn(vch) \in 1..(Order - 1)

\* what the bytes of a CKey hold before anything is written to them
Garbage == {Zeros(32), Bytes32(1)}

\* the byte strings handed to CKey::Set: the 32-byte scalars 0, 1, n - 1, n
\* and n + 1, and the scalar 1 in 31 and in 33 bytes
SetInputs ==
    {Bytes32(v) : v \in {0, 1, Order - 1, Order, Order + 1}}
        \cup {Tail(Bytes32(1)), <<0>> \o Bytes32(1)}

NoCKey == [live |-> FALSE, fValid |-> FALSE, fCompressed |-> FALSE,
           vch |-> Zeros(32), locked |-> 0]

NoKeyOp == [op |-> "none", key |-> 0, from |-> 0, data |-> <<>>, flag |-> FALSE]

KeyInit ==
    /\ keys = [i \in CKeys |-> NoCKey]
    /\ keyOp = NoKeyOp

\* LockObject(vch) and UnlockObject(vch); unlocking wipes the bytes first
LockObject(k) == [k EXCEPT !.locked = @ + 1]
UnlockObject(k) == [k EXCEPT !.vch = Zeros(32), !.locked = @ - 1]

\* CKey::CKey(): vch is not initialised
CKeyConstruct(i) ==
    /\ ~keys[i].live
    /\ \E mem \in Garbage :
        keys' = [keys EXCEPT ![i] =
                    LockObject([live |-> TRUE, fValid |-> FALSE, fCompressed |-> FALSE,
                                vch |-> mem, locked |-> keys[i].locked])]
    /\ keyOp' = [op |-> "CKey", key |-> i, from |-> 0, data |-> <<>>, flag |-> FALSE]
    /\ UNCHANGED <<signVars, tweakVars, bigVars>>

\* variant of the copy constructor: the members are copied, LockObject is
\* not called
CKeyCopy_NoLock(i, secret) ==
    /\ ~keys[i].live
    /\ keys[secret].live
    /\ keys' = [keys EXCEPT ![i] =
                    [live |-> TRUE, fValid |-> keys[secret].fValid,
                     fCompressed |-> keys[secret].fCompressed,
                     vch |-> keys[secret].vch, locked |-> keys[i].locked]]
    /\ keyOp' = [op |-> "copy", key |-> i, from |-> secret, data |-> <<>>, flag |-> FALSE]
    /\ UNCHANGED <<signVars, tweakVars, bigVars>>

\* CKey::CKey(const CKey& secret)
CKeyCopy(i, secret) ==
    /\ ~keys[i].live
    /\ keys[secret].live
    /\ keys' = [keys EXCEPT ![i] =
                    [LockObject([live |-> TRUE, fValid |-> keys[secret].fValid,
                                 fCompressed |-> keys[secret].fCompressed,
                                 vch |-> keys[i].vch, locked |-> keys[i].locked])
                     EXCEPT !.vch = keys[secret].vch]]
    /\ keyOp' = [op |-> "copy", key |-> i, from |-> secret, data |-> <<>>, flag |-> FALSE]
    /\ UNCHANGED <<signVars, tweakVars, bigVars>>

\* CKey::~CKey()
CKeyDestroy(i) ==
    /\ keys[i].live
    /\ keys' = [keys EXCEPT ![i] =
                    [UnlockObject(keys[i]) EXCEPT !.live = FALSE, !.fValid = FALSE,
                                                  !.fCompressed = FALSE]]
    /\ keyOp' = [op |-> "~CKey", key |-> i, from |-> 0, data |-> <<>>, flag |-> FALSE]
    /\ UNCHANGED <<signVars, tweakVars, bigVars>>

\* CKey::size, CKey::begin .. CKey::end
size(k) == IF k.fValid THEN 32 ELSE 0

\* variant of end(): one byte short
Range_Short(k) == SubSeq(k.vch, 1, size(k) - 1)

Range(k) == SubSeq(k.vch, 1, size(k))

\* memcmp(a, b, n) == 0
MemEq(a, b, n) == \A x \in 1..n : a[x] = b[x]

\* variant of operator==: all 32 bytes are compared, whatever size() is
operator_eq_AllBytes(a, b) ==
    a.fCompressed = b.fCompressed /\ size(a) = size(b) /\ MemEq(a.vch, b.vch, 32)

\* operator==(const CKey& a, const CKey& b)
operator_eq(a, b) ==
    a.fCompressed = b.fCompressed /\ size(a) = size(b) /\ MemEq(a.vch, b.vch, size(a))

\* variants of Set: the bytes are not copied on success; a wrong length
\* returns without clearing fValid
Set_NoMemcpy(k, data, fCompressedIn) ==
    IF Len(data) # 32 THEN [k EXCEPT !.fValid = FALSE]
    ELSE IF Check(data)
         THEN [k EXCEPT !.fValid = TRUE, !.fCompressed = fCompressedIn]
         ELSE [k EXCEPT !.fValid = FALSE]

Set_KeepsValid(k, data, fCompressedIn) ==
    IF Len(data) # 32 THEN k
    ELSE IF Check(data)
         THEN [k EXCEPT !.vch = data, !.fValid = TRUE, !.fCompressed = fCompressedIn]
         ELSE [k EXCEPT !.fValid = FALSE]

\* CKey::Set(pbegin, pend, fCompressedIn), as a function of the object
Set(k, data, fCompressedIn) ==
    IF Len(data) # 32 THEN [k EXCEPT !.fValid = FALSE]
    ELSE IF Check(data)
         THEN [k EXCEPT !.vch = data, !.fValid = TRUE, !.fCompressed = fCompressedIn]
         ELSE [k EXCEPT !.fValid = FALSE]

CKeySet(i, data, fCompressedIn) ==
    /\ keys[i].live
    /\ keys' = [keys EXCEPT ![i] = Set(keys[i], data, fCompressedIn)]
    /\ keyOp' = [op |-> "Set", key |-> i, from |-> 0, data |-> data, flag |-> fCompressedIn]
    /\ UNCHANGED <<signVars, tweakVars, bigVars>>

\* keys[i].Set(k.begin(), k.end(), k.IsCompressed()) with k another key
CKeySetFrom(i, from) ==
    /\ keys[i].live /\ keys[from].live
    /\ i # from
    /\ keys' = [keys EXCEPT ![i] = Set(keys[i], Range(keys[from]), keys[from].fCompressed)]
    /\ keyOp' = [op |-> "SetFrom", key |-> i, from |-> from, data |-> Range(keys[from]),
                 flag |-> keys[from].fCompressed]
    /\ UNCHANGED <<signVars, tweakVars, bigVars>>

\* keys[i] == keys[from]
CKeyEquals(i, from) ==
    /\ keys[i].live /\ keys[from].live
    /\ keyOp' = [op |-> "==", key |-> i, from |-> from, data |-> <<>>,
                 flag |-> operator_eq(keys[i], keys[from])]
    /\ UNCHANGED keys
    /\ UNCHANGED <<signVars, tweakVars, bigVars>>

KeyNext ==
    \/ \E i \in CKeys : CKeyConstruct(i)
    \/ \E i \in CKeys, secret \in CKeys : CKeyCopy(i, secret)
    \/ \E i \in CKeys : CKeyDestroy(i)
    \/ \E i \in CKeys, data \in SetInputs, fCompressedIn \in BOOLEAN : CKeySet(i, data, fCompressedIn)
    \/ \E i \in CKeys, from \in CKeys : CKeySetFrom(i, from)
    \/ \E i \in CKeys, from \in CKeys : CKeyEquals(i, from)

(***************************************************************************)
(* CBigNum::randBignum.  A CBigNum is its integer value.                   *)
(***************************************************************************)
NoRnd == [done |-> FALSE, range |-> 0, ret |-> 0, thrown |-> FALSE]

BigInit == rnd = NoRnd

\* BN_rand_range(rnd, range): the values it can produce, 0 <= rnd < range;
\* none when it fails (range is not positive)
BN_rand_range(range) == 0..(range - 1)

\* CBigNum::randBignum(range)
randBignum(range) ==
    /\ IF BN_rand_range(range) = {}
       THEN rnd' = [done |-> TRUE, range |-> range, ret |-> 0, thrown |-> TRUE]
       ELSE \E r \in BN_rand_range(range) :
               rnd' = [done |-> TRUE, range |-> range, ret |-> r, thrown |-> FALSE]
    /\ UNCHANGED <<signVars, tweakVars, keyVars>>

BigNext == \E range \in 0..MaxRange : randBignum(range)

(***************************************************************************)
(* Specifications: signing and recovery (Spec), recovery from received     *)
(* signatures (SpecRecover), tweaking (SpecTweak), the CKey container      *)
(* (SpecKey), CBigNum (SpecBig).                                           *)
(***************************************************************************)
Init == SignInit /\ TweakInit /\ KeyInit /\ BigInit

Next == SignNext

Spec == Init /\ [][Next]_vars

SpecRecover == Init /\ [][RecoverNext]_vars

\* the tweaks, CKey and randBignum do not depend on the OpenSSL version
InitOld == Init /\ ~opensslNew

SpecTweak == InitOld /\ [][TweakNext]_vars

SpecKey == InitOld /\ [][KeyNext]_vars

SpecBig == InitOld /\ [][BigNext]_vars

(***************************************************************************)
(* Properties.                                                             *)
(***************************************************************************)
\* the public key of a secret scalar, as SetSecretBytes and GetPubKey give it
PublicKeyOf(vch) == i2o_ECPublicKey(EC_KEY_regenerate_key(BN_bin2bn(vch)), TRUE)

\* pkey holds a valid secret and the public key that belongs to it
ValidSigner ==
    /\ pkey.priv \in 1..(Order - 1)
    /\ pkey.pub = EC_KEY_regenerate_key(pkey.priv)

\* TweakSecret(k, t) and TweakPublic(t) on the public key of a valid k
SameTweak ==
    /\ tsCall.done /\ tpCall.done
    /\ tsCall.vchTweak = tpCall.vchTweak
    /\ Check(tsCall.vchSecretIn)
    /\ i2o_ECPublicKey(tpCall.pubIn, TRUE) = PublicKeyOf(tsCall.vchSecretIn)

\* C1: whenever TweakSecret(k, t) and TweakPublic(t) applied to the public
\* key of k both return true, the public key of the tweaked secret equals
\* the tweaked public key.
C1_TweakCommutes ==
    (SameTweak /\ tsCall.ret /\ tpCall.ret)
        => PublicKeyOf(tsCall.vchSecretOut) = GetPubKey(twKey, TRUE)

C1_Witness ==
    /\ SameTweak /\ tsCall.ret /\ tpCall.ret
    /\ BN_bin2bn(tsCall.vchTweak) > 1
    /\ BN_bin2bn(tsCall.vchSecretIn) + BN_bin2bn(tsCall.vchTweak) > Order

\* the compact signature at hand is the output of a successful SignCompact
CompactSigned == rawsig # BadSig /\ rec # -1 /\ ~aborted /\ vchSig = <<>>

\* C2: the 64 bytes and the recovery id of a successful SignCompact(d) by a
\* valid key, fed to Recover(d, p64, rec), make it succeed and yield the
\* signer's public key.
C2_RecoverRoundTrip ==
    (op = "Recover" /\ CompactSigned /\ ValidSigner /\ recIn = rec)
        => (ret /\ GetPubKey(keyRec, TRUE) = GetPubKey(pkey, TRUE))

\* C3: every signature a successful Sign returns has s <= floor(n/2): a raw
\* s above n >> 1 is replaced by n - s with r kept, anything else is left as
\* the provider produced it.
C3_SignLowS ==
    vchSig # <<>> =>
        LET sig == d2i_ECDSA_SIG(vchSig) IN
        /\ sig.s <= Order \div 2
        /\ sig.r = rawsig.r
        /\ sig.s = IF 2 * rawsig.s > Order THEN Order - rawsig.s ELSE rawsig.s

C3_Witness == vchSig # <<>> /\ 2 * rawsig.s > Order /\ rawsig.r > 255

\* C4: the signature a successful Sign(d) returns is accepted by Verify(d,
\* sig) on a key holding the signer's public key.
C4_SignVerifies ==
    (op = "Verify" /\ ValidSigner /\ keyRec.pub = pkey.pub) => ret

C4_Witness ==
    op = "Verify" /\ ValidSigner /\ keyRec.pub = pkey.pub /\ ret /\ 2 * rawsig.s > Order

\* C5: every CKey with IsValid() holds 32 bytes that pass Check.
C5_ValidKeyChecked ==
    \A i \in CKeys :
        (keys[i].live /\ keys[i].fValid) => (Len(keys[i].vch) = 32 /\ Check(keys[i].vch))

C5_Witness ==
    /\ keyOp.op = "copy"
    /\ keys[keyOp.key].fValid
    /\ keys[keyOp.key].vch = Bytes32(Order - 1)

\* C6: Set leaves the key valid if and only if the input is exactly 32 bytes
\* whose big-endian value is in [1, n-1]; on acceptance the key stores those
\* bytes and the given compressed flag.
C6_SetAccepts ==
    keyOp.op = "Set" =>
        LET k == keys[keyOp.key]
            accepted == /\ Len(keyOp.data) = 32
                        /\ BN_bin2bn(keyOp.data) >= 1
                        /\ BN_bin2bn(keyOp.data) < Order
        IN /\ k.fValid <=> accepted
           /\ accepted => (k.vch = keyOp.data /\ k.fCompressed = keyOp.flag)

C6_Witness ==
    /\ keyOp.op = "Set"
    /\ keyOp.data = Bytes32(1)
    /\ keyOp.flag
    /\ keys[keyOp.key].fValid
    /\ keys[keyOp.key].vch = Bytes32(1)

\* C7: Recover fails on range grounds exactly when the recovery id is
\* outside [0,3]: ids 0..3 proceed to the recovery construction, any other
\* id returns false before it.
C7_RecoverRange ==
    op = "Recover" =>
        /\ recIn \in 0..3 => reached
        /\ recIn \notin 0..3 => (~reached /\ ~ret)

\* C8: the s packed into bytes 32..63 by a successful SignCompact satisfies
\* s <= floor(n/2).
C8_CompactLowS ==
    CompactSigned => ReadCompact(p64).s <= Order \div 2

\* C9: when none of the ids 0..3 reconstructs the signer's public key,
\* SignCompact returns false and the process is not aborted.
C9_NoMatchReturnsFalse ==
    (op = "SignCompact" /\ rawsig # BadSig /\ rec = -1) => (~aborted /\ ~ret)

\* C10: TweakSecret computes (secretIn + tweak) mod n and returns false
\* exactly when tweak >= n or the sum is 0 mod n; otherwise it returns true
\* with the sum, in [1, n-1], as 32 big-endian bytes.
C10_TweakSecret ==
    tsCall.done =>
        LET t == BN_bin2bn(tsCall.vchTweak)
            sum == (BN_bin2bn(tsCall.vchSecretIn) + t) % Order
        IN /\ tsCall.ret <=> ~(t >= Order \/ sum = 0)
           /\ tsCall.ret =>
                /\ sum \in 1..(Order - 1)
                /\ Len(tsCall.vchSecretOut) = 32
                /\ BN_bin2bn(tsCall.vchSecretOut) = sum
                /\ \A i \in 1..(32 - BN_num_bytes(sum)) : tsCall.vchSecretOut[i] = 0

C10_Witness ==
    /\ tsCall.done /\ tsCall.ret
    /\ BN_bin2bn(tsCall.vchSecretIn) + BN_bin2bn(tsCall.vchTweak) > Order
    /\ BN_bin2bn(tsCall.vchSecretOut) > 255

\* C11: TweakPublic returns false exactly when tweak >= n or pubkey +
\* tweak*G is the point at infinity; otherwise it returns true and the key's
\* public point is pubkey + tweak*G.
C11_TweakPublic ==
    tpCall.done =>
        LET t == BN_bin2bn(tpCall.vchTweak)
            sum == PointAdd(tpCall.pubIn, PointMul(t, G))
        IN /\ tpCall.ret <=> ~(t >= Order \/ sum = Infinity)
           /\ tpCall.ret => twKey.pub = sum

C11_Witness ==
    /\ tpCall.done /\ tpCall.ret
    /\ BN_bin2bn(tpCall.vchTweak) > 1
    /\ twKey.pub # tpCall.pubIn

\* C12: whenever Recover(d, p64, rec) returns true, the signature (r, s)
\* read from p64 verifies for d under the public key left in the CECKey.
C12_RecoverVerifies ==
    (op = "Recover" /\ ret) => ECDSA_do_verify(hash, ReadCompact(p64), keyRec.pub)

\* C13: a successful SignCompact leaves 64 bytes of which bytes 0..31 are r
\* and bytes 32..63 are s, big-endian and zero-padded on the left, and it
\* writes to no byte outside those 64.
C13_CompactLayout ==
    CompactSigned =>
        /\ Len(p64) = 64
        /\ \A i \in 1..(32 - BN_num_bytes(rawsig.r)) : p64[i] = 0
        /\ \A i \in 33..(64 - BN_num_bytes(rawsig.s)) : p64[i] = 0
        /\ BN_bin2bn(SubSeq(p64, 1, 32)) = rawsig.r
        /\ BN_bin2bn(SubSeq(p64, 33, 64)) = rawsig.s
        /\ CompactWrites(rawsig) \subseteq 0..63

C13_Witness ==
    /\ CompactSigned /\ ret /\ op = "SignCompact"
    /\ rawsig.r > 255 /\ rawsig.s < 256
    /\ p64[31] = 1 /\ p64[63] = 0

\* C14: a CKey that is not valid holds all-zero scalar bytes: after default
\* construction, after a Set that invalidates it, and after destruction.
C14_InvalidKeyZero ==
    \A i \in CKeys : ~keys[i].fValid => keys[i].vch = Zeros(32)

\* C15: every CKey, default- or copy-constructed, is locked from the end of
\* its construction until its destruction, and each LockObject is matched by
\* exactly one UnlockObject: a live key is locked once, a destroyed one not
\* at all.
C15_LockMatched ==
    \A i \in CKeys : keys[i].locked = IF keys[i].live THEN 1 ELSE 0

C15_Witness ==
    /\ keyOp.op = "~CKey"
    /\ \E i \in CKeys : keys[i].live /\ keys[i].fValid /\ keys[i].locked = 1
    /\ ~keys[keyOp.key].live /\ keys[keyOp.key].locked = 0

\* C16: for every valid CKey k, a key initialised with Set(k.begin(),
\* k.end(), k.IsCompressed()) is valid and compares equal to k.
C16_SetRoundTrip ==
    (keyOp.op = "SetFrom" /\ keys[keyOp.from].fValid)
        => /\ keys[keyOp.key].fValid
           /\ operator_eq(keys[keyOp.key], keys[keyOp.from])

C16_Witness ==
    /\ keyOp.op = "SetFrom"
    /\ keys[keyOp.from].fValid /\ keys[keyOp.from].fCompressed
    /\ keys[keyOp.from].vch = Bytes32(Order - 1)
    /\ keys[keyOp.key].vch = Bytes32(Order - 1)

\* C17: operator== returns true exactly when both keys have the same
\* compressed flag, the same size() (32 if valid, 0 if not) and the same
\* bytes over that size; an invalid key never equals a valid one.
C17_OperatorEq ==
    keyOp.op = "==" =>
        LET a == keys[keyOp.key]
            b == keys[keyOp.from]
        IN /\ keyOp.flag <=> /\ a.fCompressed = b.fCompressed
                             /\ a.fValid = b.fValid
                             /\ a.fValid => a.vch = b.vch
           /\ a.fValid # b.fValid => ~keyOp.flag

C17_Witness ==
    /\ keyOp.op = "==" /\ keyOp.flag
    /\ keyOp.key # keyOp.from
    /\ ~keys[keyOp.key].fValid /\ ~keys[keyOp.from].fValid
    /\ keys[keyOp.key].vch # keys[keyOp.from].vch

\* C18: Sign returns false only when the provider's signing call returns no
\* signature, whatever the digest and (r, s) are; when it returns false the
\* output vector is empty, when it returns true the output is the encoded
\* normalized signature.
C18_SignFailure ==
    op = "Sign" =>
        /\ ret <=> rawsig # BadSig
        /\ ~ret => vchSig = <<>>
        /\ ret => /\ vchSig # <<>>
                  /\ d2i_ECDSA_SIG(vchSig) =
                        [r |-> rawsig.r,
                         s |-> IF rawsig.s > Order \div 2 THEN Order - rawsig.s ELSE rawsig.s]

C18_Witness ==
    /\ op = "Sign" /\ ~ret
    /\ pkey.priv # NoKey
    /\ vchSig = <<>> /\ hash > Order

\* C19: randBignum(range) returns a number strictly between zero and range:
\* for every range > 1 and every outcome of the random source, 0 < result
\* < range.
C19_RandBignumRange ==
    (rnd.done /\ ~rnd.thrown /\ rnd.range > 1) => (0 < rnd.ret /\ rnd.ret < rnd.range)

\* recovery from (digest, r, s, i) succeeds and gives the signer's public key
RecoversSigner(i) ==
    LET res == ECDSA_SIG_recover_key_GFp(rawsig, hash, i, 1)
    IN res.ret = 1 /\ i2o_ECPublicKey(res.pub, TRUE) = i2o_ECPublicKey(pkey.pub, TRUE)

\* C20: the recovery id a successful SignCompact reports is the smallest i
\* in 0..3 for which key recovery from (digest, r, s, i) succeeds and the
\* recovered compressed public key equals the signer's.
C20_FirstRecId ==
    CompactSigned =>
        /\ rec \in 0..3
        /\ RecoversSigner(rec)
        /\ \A j \in 0..(rec - 1) : ~RecoversSigner(j)

C20_Witness ==
    /\ CompactSigned /\ op = "SignCompact" /\ ret
    /\ rec = 3
    /\ ECDSA_SIG_recover_key_GFp(rawsig, hash, 2, 1).ret = 1

\* C21: every TweakPublic call, the ones that return false (tweak >= n, or
\* the result at infinity) included, leaves pubkey + tweak*G as the key's
\* public point.
C21_TweakPublicStores ==
    tpCall.done =>
        twKey.pub = PointAdd(tpCall.pubIn, PointMul(BN_bin2bn(tpCall.vchTweak), G))

C21_Witness ==
    /\ tpCall.done /\ ~tpCall.ret
    /\ BN_bin2bn(tpCall.vchTweak) > Order
    /\ twKey.pub # tpCall.pubIn

\* C22: under both OpenSSL-version paths of Recover the signature handed to
\* the recovery routine has r = the big-endian integer of p64[0..31] and s =
\* that of p64[32..63], and Recover's result is the routine's result for that
\* signature, whatever the version.
C22_RecoverPathsAgree ==
    (op = "Recover" /\ reached) =>
        /\ sigIn = ReadCompact(p64)
        /\ ~aborted
        /\ ret <=> ECDSA_SIG_recover_key_GFp(ReadCompact(p64), hash, recIn, 0).ret = 1
====
